---------------------------- MODULE Spec2Model ----------------------------
(***************************************************************************)
(* A model of src/post.py: the WordPress publisher's HTML-to-Gutenberg     *)
(* converter (html_to_gutenberg_blocks, clean_html), the submission        *)
(* (create_post) and the batch driver (run).                               *)
(*                                                                         *)
(* Text is modelled at character level: a Python str is a sequence of      *)
(* one-character strings, so the regular expressions of clean_html, the    *)
(* parser's tokenising and the block templates act on characters.          *)
(***************************************************************************)
EXTENDS Integers, Sequences, FiniteSets, TLC

VARIABLES
    pc,             \* position of the modelled call / of run()
    env,            \* os.environ: POST_TITLE, HTML_FILE, PUBLISH_STATUS
    post_title,     \* self.post_title
    publish_status, \* self.publish_status
    html_file,      \* self.html_file
    headers,        \* self.headers
    api_url,        \* self.api_url
    html_content,   \* the text handed to the operation under study
    now,            \* the clock reading of the latest datetime.now()
    content,        \* the cleaned working content (local `content`)
    blocks,         \* html_to_gutenberg_blocks: the local list `blocks`
    result,         \* html_to_gutenberg_blocks: the returned string
    first_blocks,   \* the blocks of the first conversion, once re-converted
    fs_html,        \* the .html files of the directory, in os.listdir order
    fs_json,        \* the .json files of the directory
    idx,            \* run(): how many files the two loops have taken
    requests,       \* the POSTs sent so far (source file, title and status of
                    \* post_data), each with the outcome it met
    results,        \* run(): the local list `results`
    exit_code       \* the status run() exits with (-1 while it runs)

publisher == <<post_title, publish_status, html_file, headers, api_url>>
call == <<html_content, now, content, blocks, result, first_blocks>>
batch == <<fs_html, fs_json, idx, requests, results, exit_code>>
vars == <<pc, env, publisher, call, batch>>

(***************************************************************************)
(* Characters and strings                                                  *)
(***************************************************************************)

\* str.strip() and \s: the whitespace characters that occur in the inputs
WS == {" ", "\n", "\t"}

UpperCase == <<"A","B","C","D","E","F","G","H","I","J","K","L","M","N","O","P","Q","R","S","T","U","V","W","X","Y","Z">>
LowerCase == <<"a","b","c","d","e","f","g","h","i","j","k","l","m","n","o","p","q","r","s","t","u","v","w","x","y","z">>

\* str.lower() of one character (re.IGNORECASE, and the parser's tag names)
ToLower ==
    [c \in {UpperCase[i] : i \in 1..Len(UpperCase)} |->
        LowerCase[CHOOSE i \in 1..Len(UpperCase) : UpperCase[i] = c]]

Letters == {UpperCase[i] : i \in 1..26} \cup {LowerCase[i] : i \in 1..26}

Lower(c) == IF c \in DOMAIN ToLower THEN ToLower[c] ELSE c

IsLetter(c) == c \in Letters

\* the literal lit (lower case) occurs in s at position i, ignoring case
MatchAt(s, i, lit) ==
    /\ i >= 1
    /\ i + Len(lit) - 1 <= Len(s)
    /\ \A k \in 1..Len(lit) : Lower(s[i + k - 1]) = lit[k]

\* the literal lit occurs in s at position i, case-sensitively
MatchExact(s, i, lit) ==
    /\ i >= 1
    /\ i + Len(lit) - 1 <= Len(s)
    /\ \A k \in 1..Len(lit) : s[i + k - 1] = lit[k]

RECURSIVE FirstIn(_, _, _)
\* index of the first character of s in the set C at or after from, 0 when
\* there is none
FirstIn(s, from, C) ==
    IF from > Len(s) THEN 0
    ELSE IF s[from] \in C THEN from
    ELSE FirstIn(s, from + 1, C)

\* index of the first ">" at or after from, 0 when there is none: [^>]*>
FirstGt(s, from) == FirstIn(s, from, {">"})

RECURSIVE FirstAt(_, _, _)
\* index of the first (case-insensitive) occurrence of lit at or after from
FirstAt(s, from, lit) ==
    IF from > Len(s) THEN 0
    ELSE IF MatchAt(s, from, lit) THEN from
    ELSE FirstAt(s, from + 1, lit)

RECURSIVE FirstExact(_, _, _)
\* index of the first case-sensitive occurrence of lit at or after from
FirstExact(s, from, lit) ==
    IF from > Len(s) THEN 0
    ELSE IF MatchExact(s, from, lit) THEN from
    ELSE FirstExact(s, from + 1, lit)

RECURSIVE LastIn(_, _, _)
\* index of the last character of s in C at or before to, 0 when none
LastIn(s, to, C) ==
    IF to < 1 THEN 0
    ELSE IF s[to] \in C THEN to
    ELSE LastIn(s, to - 1, C)

RECURSIVE LastNotIn(_, _, _)
\* index of the last character of s not in C at or before to, 0 when none
LastNotIn(s, to, C) ==
    IF to < 1 THEN 0
    ELSE IF s[to] \notin C THEN to
    ELSE LastNotIn(s, to - 1, C)

RECURSIVE FirstNotIn(_, _, _)
FirstNotIn(s, from, C) ==
    IF from > Len(s) THEN 0
    ELSE IF s[from] \notin C THEN from
    ELSE FirstNotIn(s, from + 1, C)

\* t occurs in s
Contains(s, t) == \E i \in 1..(Len(s) - Len(t) + 1) : MatchExact(s, i, t)

\* the substring s[a..b] (empty when b < a)
Sub(s, a, b) == IF b < a THEN <<>> ELSE SubSeq(s, a, b)

\* str.strip()
Strip(s) ==
    LET a == FirstNotIn(s, 1, WS)
    IN IF a = 0 THEN <<>> ELSE SubSeq(s, a, LastNotIn(s, Len(s), WS))

RECURSIVE Concats(_, _)
\* every concatenation of at most n members of P
Concats(P, n) ==
    IF n = 0 THEN {<<>>}
    ELSE LET R == Concats(P, n - 1)
         IN R \cup {r \o p : r \in R, p \in P}

(***************************************************************************)
(* clean_html                                                              *)
(***************************************************************************)

\* r'</?body[^>]*>' at position i: index of the match's last character, 0
\* when the pattern does not match at i
BodyTagEnd(s, i) ==
    IF s[i] # "<" THEN 0 ELSE
    LET n == IF MatchAt(s, i, <<"<","/","b","o","d","y">>) THEN i + 6
             ELSE IF MatchAt(s, i, <<"<","b","o","d","y">>) THEN i + 5
             ELSE 0
    IN IF n = 0 THEN 0 ELSE FirstGt(s, n)

\* r'<script[^>]*>.*?</script>' (IGNORECASE | DOTALL) at position i: index of
\* the match's last character, 0 when the pattern does not match at i
ScriptEnd(s, i) ==
    IF s[i] # "<" \/ ~MatchAt(s, i, <<"<","s","c","r","i","p","t">>) THEN 0
    ELSE LET g == FirstGt(s, i + 7)
         IN IF g = 0 THEN 0
            ELSE LET k == FirstAt(s, g + 1, <<"<","/","s","c","r","i","p","t",">">>)
                 IN IF k = 0 THEN 0 ELSE k + 8

\* re.sub(r'</?body[^>]*>', '', s): one left-to-right pass from position i
RECURSIVE SubBody(_, _)
SubBody(s, i) ==
    LET j == FirstIn(s, i, {"<"})   \* no match can start before the next "<"
    IN IF j = 0 THEN Sub(s, i, Len(s))
       ELSE LET e == BodyTagEnd(s, j)
            IN IF e > 0 THEN Sub(s, i, j - 1) \o SubBody(s, e + 1)
               ELSE Sub(s, i, j) \o SubBody(s, j + 1)

\* re.sub(r'<script[^>]*>.*?</script>', '', s): one left-to-right pass
RECURSIVE SubScript(_, _)
SubScript(s, i) ==
    LET j == FirstIn(s, i, {"<"})
    IN IF j = 0 THEN Sub(s, i, Len(s))
       ELSE LET e == ScriptEnd(s, j)
            IN IF e > 0 THEN Sub(s, i, j - 1) \o SubScript(s, e + 1)
               ELSE Sub(s, i, j) \o SubScript(s, j + 1)

clean_html(html) == Strip(SubScript(SubBody(html, 1), 1))

(***************************************************************************)
(* BeautifulSoup(text, 'html.parser'): the tokeniser and the tree builder  *)
(***************************************************************************)

RECURSIVE Flat(_)
\* ''.join(parts)
Flat(parts) == IF parts = <<>> THEN <<>> ELSE Head(parts) \o Flat(Tail(parts))

LowerSeq(s) == [k \in 1..Len(s) |-> Lower(s[k])]

\* elements the tree builder closes as soon as they open (rendered <x/>)
VoidTags == {<<"i","m","g">>, <<"b","r">>, <<"h","r">>, <<"m","e","t","a">>, <<"l","i","n","k">>, <<"i","n","p","u","t">>}

\* elements whose content the tokeniser reads as raw text up to the end tag
CDataTags == {<<"s","c","r","i","p","t">>, <<"s","t","y","l","e">>}

\* elements inside which whitespace-only strings are kept as written
PreserveWsTags == {<<"p","r","e">>, <<"t","e","x","t","a","r","e","a">>}

\* first index at or after j where a tag name stops (whitespace, "/" or ">")
NameStop(s, j) ==
    LET x == FirstIn(s, j, WS \cup {"/", ">"})
    IN IF x = 0 THEN Len(s) + 1 ELSE x

\* the attribute text of a start tag s[j..g-1], without the closing "/"
AttrText(s, j, g) ==
    LET a == Strip(Sub(s, j, g - 1))
    IN IF a # <<>> /\ a[Len(a)] = "/" THEN Strip(Sub(a, 1, Len(a) - 1)) ELSE a

SelfClosed(s, j, g) ==
    LET a == Strip(Sub(s, j, g - 1)) IN a # <<>> /\ a[Len(a)] = "/"

NoTok == [kind |-> "text", name |-> <<>>, attrs |-> <<>>, data |-> <<>>,
          selfclose |-> FALSE, next |-> 0]

\* the token that starts at position i of s; cdata is the raw-text element
\* that is open (<<>> when none)
Tok(s, i, cdata) ==
    IF cdata # <<>> THEN
        \* raw text until the element's own end tag
        IF MatchAt(s, i, <<"<","/">> \o cdata) /\ FirstGt(s, i) > 0
        THEN [NoTok EXCEPT !.kind = "end", !.name = cdata,
                           !.next = FirstGt(s, i) + 1]
        ELSE LET k == FirstAt(s, i + 1, <<"<","/">> \o cdata)
                 e == IF k = 0 THEN Len(s) ELSE k - 1
             IN [NoTok EXCEPT !.data = Sub(s, i, e), !.next = e + 1]
    ELSE IF s[i] # "<" THEN
        \* text up to the next "<"
        LET x == FirstIn(s, i, {"<"})
            e == IF x = 0 THEN Len(s) ELSE x - 1
        IN [NoTok EXCEPT !.data = Sub(s, i, e), !.next = e + 1]
    ELSE IF MatchExact(s, i, <<"<","!","-","-">>) THEN
        LET x == FirstExact(s, i + 4, <<"-","-",">">>)
        IN IF x = 0 THEN [NoTok EXCEPT !.data = <<"<">>, !.next = i + 1]
           ELSE [NoTok EXCEPT !.kind = "comment",
                              !.data = Sub(s, i + 4, x - 1),
                              !.next = x + 3]
    ELSE IF MatchExact(s, i, <<"<","/">>) /\ i + 2 <= Len(s) /\ IsLetter(s[i + 2])
            /\ FirstGt(s, i) > 0 THEN
        [NoTok EXCEPT !.kind = "end",
                      !.name = LowerSeq(Sub(s, i + 2, NameStop(s, i + 2) - 1)),
                      !.next = FirstGt(s, i) + 1]
    ELSE IF i + 1 <= Len(s) /\ IsLetter(s[i + 1]) /\ FirstGt(s, i) > 0 THEN
        LET g == FirstGt(s, i)
            n == NameStop(s, i + 1)
        IN [NoTok EXCEPT !.kind = "start",
                         !.name = LowerSeq(Sub(s, i + 1, n - 1)),
                         !.attrs = AttrText(s, n, g),
                         !.selfclose = SelfClosed(s, n, g),
                         !.next = g + 1]
    ELSE [NoTok EXCEPT !.data = <<"<">>, !.next = i + 1]

\* output formatting of a string inside an element (formatter "minimal")
Escape(d) ==
    Flat([k \in 1..Len(d) |->
            IF d[k] = "&" THEN <<"&","a","m","p",";">>
            ELSE IF d[k] = "<" THEN <<"&","l","t",";">>
            ELSE IF d[k] = ">" THEN <<"&","g","t",";">>
            ELSE <<d[k]>>])

OpenTag(name, attrs, void) ==
    <<"<">> \o name \o (IF attrs = <<>> THEN <<>> ELSE <<" ">> \o attrs)
            \o (IF void THEN <<"/",">">> ELSE <<">">>)

\* The builder's state: the stack of open elements (each with its markup so
\* far and its text), the pending character data, the root's children and
\* every closed element (for find).
EmptySoup == [stack |-> <<>>, cur |-> <<>>, nodes |-> <<>>, elems |-> <<>>,
              cdata |-> <<>>]

\* a finished node goes to the innermost open element, or to the root; inside
\* an element a string is rendered escaped, except in script and style
Attach(st, node, text) ==
    IF st.stack = <<>> THEN [st EXCEPT !.nodes = Append(@, node)]
    ELSE LET n == Len(st.stack)
             m == IF node.kind = "text"
                  THEN (IF st.stack[n].name \in CDataTags THEN node.str
                        ELSE Escape(node.str))
                  ELSE IF node.kind = "comment"
                       THEN <<"<","!","-","-">> \o node.str \o <<"-","-",">">>
                  ELSE node.str
         IN [st EXCEPT !.stack[n].buf = @ \o m, !.stack[n].text = @ \o text]

\* BeautifulSoup.endData: the pending character data becomes a string node
EndData(st) ==
    IF st.cur = <<>> THEN st
    ELSE LET allws == \A k \in 1..Len(st.cur) : st.cur[k] \in {" ", "\n", "\t"}
             keep == \E k \in 1..Len(st.stack) : st.stack[k].name \in PreserveWsTags
             d == IF allws /\ ~keep
                  THEN (IF \E k \in 1..Len(st.cur) : st.cur[k] = "\n"
                        THEN <<"\n">> ELSE <<" ">>)
                  ELSE st.cur
         IN Attach([st EXCEPT !.cur = <<>>],
                   [kind |-> "text", name |-> <<>>, str |-> d], d)

\* the innermost open element is closed and attached to its parent
PopTag(st) ==
    LET n == Len(st.stack)
        f == st.stack[n]
        m == IF f.void THEN OpenTag(f.name, f.attrs, TRUE)
             ELSE f.buf \o <<"<","/">> \o f.name \o <<">">>
        el == [name |-> f.name, start |-> f.start, str |-> m, text |-> f.text]
        up == [st EXCEPT !.stack = SubSeq(@, 1, n - 1), !.elems = Append(@, el)]
    IN Attach(up, [kind |-> "elem", name |-> f.name, str |-> m], f.text)

RECURSIVE PopN(_, _)
PopN(st, n) == IF n = 0 THEN st ELSE PopN(PopTag(st), n - 1)

\* BeautifulSoup._popToTag: close up to the most recent open element called
\* name; an end tag that closes nothing is ignored
PopToTag(st, name) ==
    LET S == {k \in 1..Len(st.stack) : st.stack[k].name = name}
    IN IF S = {} THEN st
       ELSE PopN(st, Len(st.stack) - (CHOOSE x \in S : \A y \in S : y <= x) + 1)

\* one parser event
Feed(st, t, i) ==
    IF t.kind = "text" THEN [st EXCEPT !.cur = @ \o t.data]
    ELSE IF t.kind = "comment" THEN
        Attach(EndData(st), [kind |-> "comment", name |-> <<>>, str |-> t.data],
               <<>>)
    ELSE IF t.kind = "start" THEN
        LET void == t.name \in VoidTags
            f == [name |-> t.name, attrs |-> t.attrs, start |-> i, void |-> void,
                  buf |-> OpenTag(t.name, t.attrs, FALSE), text |-> <<>>]
            open == [EndData(st) EXCEPT !.stack = Append(@, f)]
        IN IF void \/ t.selfclose THEN PopTag(open)
           ELSE [open EXCEPT !.cdata = IF t.name \in CDataTags THEN t.name ELSE <<>>]
    ELSE PopToTag([EndData(st) EXCEPT !.cdata = <<>>], t.name)

RECURSIVE Build(_, _, _)
Build(s, i, st) ==
    IF i > Len(s)
    THEN LET e == EndData(st) IN PopN(e, Len(e.stack))
    ELSE LET t == Tok(s, i, st.cdata) IN Build(s, t.next, Feed(st, t, i))

\* BeautifulSoup(s, 'html.parser')
Soup(s) == Build(s, 1, EmptySoup)

\* soup.children: the top-level nodes, in document order
Children(soup) == soup.nodes

HasTag(soup, name) == \E k \in 1..Len(soup.elems) : soup.elems[k].name = name

\* soup.find(name): the first element called name in document order
Find(soup, name) ==
    LET S == {k \in 1..Len(soup.elems) : soup.elems[k].name = name}
        k == CHOOSE x \in S : \A y \in S : soup.elems[x].start <= soup.elems[y].start
    IN soup.elems[k]

(***************************************************************************)
(* html_to_gutenberg_blocks                                                *)
(***************************************************************************)

Digit(n) == <<"0","1","2","3","4","5","6","7","8","9">>[n + 1]
Pad2(n) == <<Digit(n \div 10), Digit(n % 10)>>
Pad4(n) == Pad2(n \div 100) \o Pad2(n % 100)

\* t.strftime('%Y-%m-%d %H:%M')
strftime(t) ==
    Pad4(t.Y) \o <<"-">> \o Pad2(t.m) \o <<"-">> \o Pad2(t.d) \o <<" ">>
              \o Pad2(t.H) \o <<":">> \o Pad2(t.M)

\* the title step with the h1 looked up before the title element
ResolveTitlePreferH1(title, soup, t) ==
    IF title # <<>> THEN title
    ELSE IF HasTag(soup, <<"h","1">>) THEN Strip(Find(soup, <<"h","1">>).text)
    ELSE IF HasTag(soup, <<"t","i","t","l","e">>) THEN Strip(Find(soup, <<"t","i","t","l","e">>).text)
    ELSE <<"P","o","s","t"," ","f","r","o","m"," ">> \o strftime(t)

\* the title step deriving a title even when one was supplied
ResolveTitleAlways(title, soup, t) ==
    IF HasTag(soup, <<"t","i","t","l","e">>) THEN Strip(Find(soup, <<"t","i","t","l","e">>).text)
    ELSE IF HasTag(soup, <<"h","1">>) THEN Strip(Find(soup, <<"h","1">>).text)
    ELSE IF title # <<>> THEN title
    ELSE <<"P","o","s","t"," ","f","r","o","m"," ">> \o strftime(t)

\* lines 78-90: self.post_title after the title step (title is its value on
\* entry, soup the parsed input, t the clock)
ResolveTitle(title, soup, t) ==
    IF title # <<>> THEN title
    ELSE IF HasTag(soup, <<"t","i","t","l","e">>) THEN Strip(Find(soup, <<"t","i","t","l","e">>).text)
    ELSE IF HasTag(soup, <<"h","1">>) THEN Strip(Find(soup, <<"h","1">>).text)
    ELSE <<"P","o","s","t"," ","f","r","o","m"," ">> \o strftime(t)

\* lines 93-98: str(body) when the document has a body, else the input
SelectContent(html, soup) ==
    IF HasTag(soup, <<"b","o","d","y">>) THEN Find(soup, <<"b","o","d","y">>).str ELSE html

\* a block: opening marker, payload and closing marker on lines of their own
Block(open, payload, close) ==
    open \o <<"\n">> \o payload \o <<"\n">> \o close

Headings == {<<"h","1">>, <<"h","2">>, <<"h","3">>, <<"h","4">>, <<"h","5">>, <<"h","6">>}

\* the level taken one character too early
HeadingLevelOfName(tag) == tag[1]

\* line 121: level = tag[1], the second character of the tag name
HeadingLevel(tag) == tag[2]

\* the figure wrapper left open
FigureUnclosed(cls, markup) ==
    <<"<","f","i","g","u","r","e"," ","c","l","a","s","s","=","\"">> \o cls \o <<"\"",">">> \o markup

\* lines 129, 143: the figure wrapper of images and tables
Figure(cls, markup) ==
    <<"<","f","i","g","u","r","e"," ","c","l","a","s","s","=","\"">> \o cls \o <<"\"",">">> \o markup \o <<"<","/","f","i","g","u","r","e",">">>

\* lines 111-113: a string child: its stripped text in a generated <p>, and
\* nothing when only whitespace is left
TextBlocks(str) ==
    LET text == Strip(str)
    IN IF text # <<>>
       THEN <<Block(<<"<","!","-","-"," ","w","p",":","p","a","r","a","g","r","a","p","h"," ","-","-",">">>, <<"<","p",">">> \o text \o <<"<","/","p",">">>,
                    <<"<","!","-","-"," ","/","w","p",":","p","a","r","a","g","r","a","p","h"," ","-","-",">">>)>>
       ELSE <<>>

\* lines 117-148: the block of an element child, chosen by its tag name
ElementBlock(tag, markup) ==
    IF tag \in Headings THEN
        Block(<<"<","!","-","-"," ","w","p",":","h","e","a","d","i","n","g"," ","{","\"","l","e","v","e","l","\"",":">> \o <<HeadingLevel(tag)>> \o <<"}"," ","-","-",">">>,
              markup, <<"<","!","-","-"," ","/","w","p",":","h","e","a","d","i","n","g"," ","-","-",">">>)
    ELSE IF tag = <<"p">> THEN
        Block(<<"<","!","-","-"," ","w","p",":","p","a","r","a","g","r","a","p","h"," ","-","-",">">>, markup, <<"<","!","-","-"," ","/","w","p",":","p","a","r","a","g","r","a","p","h"," ","-","-",">">>)
    ELSE IF tag = <<"i","m","g">> THEN
        Block(<<"<","!","-","-"," ","w","p",":","i","m","a","g","e"," ","-","-",">">>, Figure(<<"w","p","-","b","l","o","c","k","-","i","m","a","g","e">>, markup),
              <<"<","!","-","-"," ","/","w","p",":","i","m","a","g","e"," ","-","-",">">>)
    ELSE IF tag = <<"u","l">> \/ tag = <<"o","l">> THEN
        Block(<<"<","!","-","-"," ","w","p",":","l","i","s","t"," ","-","-",">">>, markup, <<"<","!","-","-"," ","/","w","p",":","l","i","s","t"," ","-","-",">">>)
    ELSE IF tag = <<"b","l","o","c","k","q","u","o","t","e">> THEN
        Block(<<"<","!","-","-"," ","w","p",":","q","u","o","t","e"," ","-","-",">">>, markup, <<"<","!","-","-"," ","/","w","p",":","q","u","o","t","e"," ","-","-",">">>)
    ELSE IF tag = <<"p","r","e">> THEN
        Block(<<"<","!","-","-"," ","w","p",":","c","o","d","e"," ","-","-",">">>, markup, <<"<","!","-","-"," ","/","w","p",":","c","o","d","e"," ","-","-",">">>)
    ELSE IF tag = <<"t","a","b","l","e">> THEN
        Block(<<"<","!","-","-"," ","w","p",":","t","a","b","l","e"," ","-","-",">">>, Figure(<<"w","p","-","b","l","o","c","k","-","t","a","b","l","e">>, markup),
              <<"<","!","-","-"," ","/","w","p",":","t","a","b","l","e"," ","-","-",">">>)
    ELSE
        Block(<<"<","!","-","-"," ","w","p",":","h","t","m","l"," ","-","-",">">>, markup, <<"<","!","-","-"," ","/","w","p",":","h","t","m","l"," ","-","-",">">>)

\* lines 109-148: what one child appends to `blocks`.  isinstance(elem, str)
\* holds of every string node of the tree: text, and comments too.
ChildBlocks(elem) ==
    IF elem.kind # "elem" THEN TextBlocks(elem.str)
    ELSE <<ElementBlock(elem.name, elem.str)>>

\* a child's blocks put before those of the children before it
AppendedFirst(bs, new) == new \o bs

\* blocks.append: a child's blocks go after those of the children before it
Appended(bs, new) == bs \o new

RECURSIVE Walk(_, _, _)
\* line 108: for elem in soup_content.children, from child k on
Walk(children, k, bs) ==
    IF k > Len(children) THEN bs
    ELSE Walk(children, k + 1, Appended(bs, ChildBlocks(children[k])))

\* the fallback left out
WithFallbackNever(bs, cleaned) == bs

\* lines 151-152: the fallback when the walk appended nothing
WithFallback(bs, cleaned) ==
    IF Len(bs) = 0
    THEN <<Block(<<"<","!","-","-"," ","w","p",":","h","t","m","l"," ","-","-",">">>, cleaned, <<"<","!","-","-"," ","/","w","p",":","h","t","m","l"," ","-","-",">">>)>>
    ELSE bs

RECURSIVE Join(_, _)
\* sep.join(parts)
Join(sep, parts) ==
    IF parts = <<>> THEN <<>>
    ELSE IF Len(parts) = 1 THEN parts[1]
    ELSE parts[1] \o sep \o Join(sep, Tail(parts))

\* lines 100-105: the cleaned content of a document
CleanedContent(html) == clean_html(SelectContent(html, Soup(html)))

\* lines 102-152: the list `blocks` for the cleaned content
BlocksOf(cleaned) ==
    WithFallback(Walk(Children(Soup(cleaned)), 1, <<>>), cleaned)

(***************************************************************************)
(* The publisher object and one conversion call                            *)
(***************************************************************************)

\* the environment of the unit runs: POST_TITLE unset, draft status
DefaultEnv == [POST_TITLE |-> <<>>, HTML_FILE |-> "", PUBLISH_STATUS |-> "draft"]

\* lines 25-50: the fields after __init__
Constructed ==
    /\ post_title = env.POST_TITLE
    /\ publish_status = env.PUBLISH_STATUS
    /\ html_file = env.HTML_FILE
    /\ headers = [Authorization |-> "Basic dXNlcjpwYXNz",
                  ContentType |-> "application/json"]
    /\ api_url = "https://site.example/wp-json/wp/v2"

\* clock readings: datetime.now()
Epoch == [Y |-> 2024, m |-> 1, d |-> 1, H |-> 0, M |-> 0]
Times == {[Y |-> 2024, m |-> 3, d |-> 7, H |-> 9, M |-> 5],
          [Y |-> 2025, m |-> 12, d |-> 31, H |-> 23, M |-> 59]}

\* no call is running
Idle ==
    /\ now = Epoch
    /\ content = <<>>
    /\ blocks = <<>>
    /\ result = <<>>
    /\ first_blocks = <<>>

\* run() is not in play: an empty directory, nothing sent
NoBatch ==
    /\ fs_html = <<>>
    /\ fs_json = <<>>
    /\ idx = 1
    /\ requests = <<>>
    /\ results = <<>>
    /\ exit_code = -1

\* line 90 is the only reader of the clock
ReadsClock(title, soup) ==
    title = <<>> /\ ~HasTag(soup, <<"t","i","t","l","e">>) /\ ~HasTag(soup, <<"h","1">>)

\* lines 68-155: one call html_to_gutenberg_blocks(html), entered with
\* self.post_title = title
ConvertedFrom(title, html) ==
    LET soup == Soup(html)
        cleaned == clean_html(SelectContent(html, soup))
        bs == BlocksOf(cleaned)
    IN /\ \E t \in (IF ReadsClock(title, soup) THEN Times ELSE {now}) :
            /\ now' = t
            /\ post_title' = ResolveTitle(title, soup, t)
       /\ content' = cleaned
       /\ blocks' = bs
       /\ result' = Join(<<"\n","\n">>, bs)
       /\ UNCHANGED <<publish_status, html_file, headers, api_url>>

(***************************************************************************)
(* Spec: the converter on bounded documents, then on its own output        *)
(***************************************************************************)

\* pieces of markup; a document is made of at most MaxDocParts of them, in
\* the order of this list
DocPieces == <<
    <<"<","b","o","d","y",">">>,
    <<"<","h","1",">","B","a","r","<","/","h","1",">">>,
    <<"<","t","i","t","l","e",">"," ","F","o","o"," ","<","/","t","i","t","l","e",">">>,
    <<"<","h","2",">","T","i","t","l","e","<","/","h","2",">","\n">>,
    <<"<","p",">","h","e","l","l","o","<","/","p",">">>,
    <<" ","h","i"," ">>,
    <<"<","i","m","g"," ","s","r","c","=","\"","a",".","p","n","g","\"",">","<","t","a","b","l","e",">","<","/","t","a","b","l","e",">","\n">>,
    <<"<","u","l",">","<","l","i",">","a","<","/","l","i",">","<","/","u","l",">","<","o","l",">","<","/","o","l",">">>,
    <<"<","b","l","o","c","k","q","u","o","t","e",">","q","<","/","b","l","o","c","k","q","u","o","t","e",">","<","p","r","e",">"," ","c"," ","<","/","p","r","e",">">>,
    <<"<","d","i","v",">","<","p",">","a","<","/","p",">"," "," ","<","P",">","b","<","/","d","i","v",">">>,
    <<"<","!","-","-","n","o","t","e","-","-",">">>,
    <<"<","!","-","-"," ","-","-",">">>,
    <<"<","s","c","r","i","p","t",">","a","l","e","r","t","(","1",")","<","/","s","c","r","i","p","t",">">>,
    <<"<","/","b","o","d","y",">","\n">> >>

MaxDocParts == 3

RECURSIVE Picks(_, _, _)
\* the concatenations of at most n of the pieces P[k], P[k+1], ..., in order
Picks(P, k, n) ==
    IF k > Len(P) \/ n = 0 THEN {<<>>}
    ELSE Picks(P, k + 1, n) \cup {P[k] \o r : r \in Picks(P, k + 1, n - 1)}

\* create_post_from_html converts a file only when it is not empty
Documents == Picks(DocPieces, 1, MaxDocParts) \ {<<>>}

SuppliedTitles == {<<>>, <<"M","i","n","e">>}

Init ==
    /\ pc = "convert"
    /\ env \in [POST_TITLE : SuppliedTitles, HTML_FILE : {""},
                PUBLISH_STATUS : {"draft"}]
    /\ Constructed
    /\ html_content \in Documents
    /\ Idle
    /\ NoBatch

\* html_to_gutenberg_blocks(html_content)
Convert ==
    /\ pc = "convert"
    /\ ConvertedFrom(post_title, html_content)
    /\ pc' = "converted"
    /\ UNCHANGED <<env, html_content, first_blocks, batch>>

\* html_to_gutenberg_blocks on the string the first call returned
Reconvert ==
    /\ pc = "converted"
    /\ ConvertedFrom(post_title, result)
    /\ html_content' = result
    /\ first_blocks' = blocks
    /\ pc' = "reconverted"
    /\ UNCHANGED <<env, batch>>

Next == Convert

Spec == Init /\ [][Next]_vars

\* the converter run a second time, on its own output
NextTwice == Convert \/ Reconvert

SpecTwice == Init /\ [][NextTwice]_vars

(***************************************************************************)
(* create_post and run                                                     *)
(***************************************************************************)

\* what requests.post does: it raises, or the server answers with a status
\* and a body ("post": the created post's JSON with id, link, status and
\* title.rendered; "message": a JSON error object; "other": anything else)
Outcomes == {
    [raised |-> TRUE,  status |-> 0,   body |-> "none"],
    [raised |-> FALSE, status |-> 201, body |-> "post"],
    [raised |-> FALSE, status |-> 201, body |-> "other"],
    [raised |-> FALSE, status |-> 400, body |-> "message"] }

\* lines 256-261: the dict of the except branch
Failed == [success |-> FALSE, keys |-> {"success", "error"}, status_code |-> 0]

\* lines 214-261: the dict create_post returns for an outcome
create_post(o) ==
    IF o.raised THEN Failed
    ELSE IF o.status = 201 THEN
        \* resp.json() and post['id'] ... raise on a body that is not the post
        IF o.body = "post"
        THEN [success |-> TRUE,
              keys |-> {"success", "post_id", "post_url", "status", "title"},
              status_code |-> 0]
        ELSE Failed
    ELSE
        \* line 247: resp.json().get('message', resp.text) raises on a body
        \* that is not a JSON object
        IF o.body \in {"post", "message"}
        THEN [success |-> FALSE, keys |-> {"success", "error", "status_code"},
              status_code |-> o.status]
        ELSE Failed

\* the title of the file before carried on
BatchTitleKept(title) == title

\* line 285: run() resets the title before each file of a batch
BatchTitle(title) == <<>>

\* lines 173-196: create_post_from_html on the k-th html file, entered with
\* self.post_title = title
PostFromHtml(k, title) ==
    IF k > Len(fs_html) \/ ~fs_html[k].ok \/ fs_html[k].text = <<>>
    THEN \* read_html_file gave None or '': return None
         /\ post_title' = title
         /\ UNCHANGED <<publish_status, html_file, headers, api_url, call,
                        requests, results>>
    ELSE /\ ConvertedFrom(title, fs_html[k].text)
         /\ html_content' = fs_html[k].text
         /\ first_blocks' = first_blocks
         /\ \E o \in Outcomes :
              /\ requests' = Append(requests,
                    [kind |-> "html", src |-> k, title |-> post_title',
                     status |-> publish_status, answer |-> o])
              /\ results' = Append(results, create_post(o))

\* the title a JSON file carries
JsonTitle == <<"F","r","o","m"," ","J","S","O","N">>

\* lines 198-212: create_post_from_json on the k-th json file
PostFromJson(k) ==
    IF ~fs_json[k].ok
    THEN UNCHANGED <<requests, results>>
    ELSE \E o \in Outcomes :
           /\ requests' = Append(requests,
                 [kind |-> "json", src |-> k, title |-> JsonTitle,
                  status |-> publish_status, answer |-> o])
           /\ results' = Append(results, create_post(o))

\* lines 311-320
ExitCode(rs) ==
    LET success_count == Cardinality({k \in 1..Len(rs) : rs[k].success})
    IN IF rs = <<>> THEN 1
       ELSE IF success_count = Len(rs) THEN 0
       ELSE IF success_count > 0 THEN 0
       ELSE 1

\* lines 269-273: HTML_FILE names the one file to publish
RunSingle ==
    /\ pc = "run"
    /\ html_file # ""
    /\ PostFromHtml(1, post_title)
    /\ pc' = "exit"
    /\ UNCHANGED <<env, fs_html, fs_json, idx, exit_code>>

\* lines 280-289: one turn of the loop over the html files
RunHtmlFile ==
    /\ pc = "run"
    /\ html_file = ""
    /\ idx <= Len(fs_html)
    /\ PostFromHtml(idx, BatchTitle(post_title))
    /\ idx' = idx + 1
    /\ UNCHANGED <<pc, env, fs_html, fs_json, exit_code>>

\* lines 292-298: one turn of the loop over the json files
RunJsonFile ==
    /\ pc = "run"
    /\ html_file = ""
    /\ idx > Len(fs_html)
    /\ idx <= Len(fs_html) + Len(fs_json)
    /\ PostFromJson(idx - Len(fs_html))
    /\ idx' = idx + 1
    /\ UNCHANGED <<pc, env, publisher, call, fs_html, fs_json, exit_code>>

\* lines 304-320: the results are saved and run() exits
RunExit ==
    /\ \/ pc = "exit"
       \/ pc = "run" /\ html_file = "" /\ idx > Len(fs_html) + Len(fs_json)
    /\ exit_code' = ExitCode(results)
    /\ pc' = "exited"
    /\ UNCHANGED <<env, publisher, call, fs_html, fs_json, idx, requests, results>>

\* the files of the runs: unreadable, with a title and an h1, without
\* either, and empty
RunFiles == {
    [ok |-> FALSE, text |-> <<>>],
    [ok |-> TRUE, text |-> <<"<","h","1",">","B","a","r","<","/","h","1",">","<","t","i","t","l","e",">"," ","F","o","o"," ","<","/","t","i","t","l","e",">">>],
    [ok |-> TRUE, text |-> <<"<","p",">","h","e","l","l","o","<","/","p",">">>],
    [ok |-> TRUE, text |-> <<>>] }

MaxFiles == 2

RECURSIVE SeqsUpTo(_, _)
\* the sequences of at most n members of S
SeqsUpTo(S, n) ==
    IF n = 0 THEN {<<>>}
    ELSE LET R == SeqsUpTo(S, n - 1)
         IN R \cup {Append(r, x) : r \in R, x \in S}

InitRun ==
    /\ pc = "run"
    /\ env \in [POST_TITLE : SuppliedTitles, HTML_FILE : {"", "post.html"},
                PUBLISH_STATUS : {"draft"}]
    /\ Constructed
    /\ html_content = <<>>
    /\ Idle
    /\ fs_html \in SeqsUpTo(RunFiles, MaxFiles)
    /\ fs_json \in {<<>>, <<[ok |-> TRUE]>>, <<[ok |-> FALSE]>>}
    \* with HTML_FILE set the directory is not listed: fs_html holds the
    \* named file, or nothing when it does not exist
    /\ env.HTML_FILE # "" => (Len(fs_html) <= 1 /\ fs_json = <<>>)
    /\ idx = 1
    /\ requests = <<>>
    /\ results = <<>>
    /\ exit_code = -1

NextRun == RunSingle \/ RunHtmlFile \/ RunJsonFile \/ RunExit

SpecRun == InitRun /\ [][NextRun]_vars

(***************************************************************************)
(* Inputs of clean_html                                                    *)
(***************************************************************************)

\* pieces of markup; an input is a concatenation of at most MaxCleanParts
CleanPieces == {
    <<"<","s","c","r","i","p","t",">">>, <<"<","/","s","c","r","i","p","t",">">>, <<"<","S","C","R","I","P","T"," ","s","r","c","=","x",">">>, <<"\n","<","/","S","c","r","i","p","t",">">>,
    <<"<","s","c","r">>, <<"i","p","t",">","a","l","e","r","t","(","1",")","<","/","s","c","r","i","p","t",">">>, <<"<","s","c","r","i","p","t",">","<","/","s","c","r","i","p","t",">">>,
    <<"<","b","o","d","y",">">>, <<"<","/","B","O","D","Y"," ",">">>, <<"<","b","o">>, <<"d","y",">">>,
    <<"<","s","t","y","l","e",">","b","{","}","<","/","s","t","y","l","e",">">>, <<"a","l","e","r","t","(","1",")">>, <<" ">> }

MaxCleanParts == 3

CleanInputs == Concats(CleanPieces, MaxCleanParts)

InitClean ==
    /\ pc = "clean"
    /\ env = DefaultEnv
    /\ Constructed
    /\ html_content \in CleanInputs
    /\ Idle
    /\ NoBatch

\* one call of clean_html
CleanHtml ==
    /\ pc = "clean"
    /\ content' = clean_html(html_content)
    /\ pc' = "cleaned"
    /\ UNCHANGED <<env, publisher, html_content, now, blocks, result, first_blocks,
                   batch>>

NextClean == CleanHtml

SpecClean == InitClean /\ [][NextClean]_vars

(***************************************************************************)
(* C5                                                                      *)
(***************************************************************************)

\* s holds a <script ...>...</script> element (case-insensitive, across lines)
HasScriptElement(s) == \E i \in 1..Len(s) : ScriptEnd(s, i) > 0

\* s holds a <body ...> or </body ...> tag
HasBodyTag(s) == \E i \in 1..Len(s) : BodyTagEnd(s, i) > 0

Stripped(s) == s = <<>> \/ (s[1] \notin WS /\ s[Len(s)] \notin WS)

\* the <style>...</style> elements written in s
StyleElements(s) ==
    {Sub(s, i, FirstAt(s, i, <<"<","/","s","t","y","l","e",">">>) + 7) :
        i \in {j \in 1..Len(s) : MatchAt(s, j, <<"<","s","t","y","l","e">>)
                                    /\ FirstAt(s, j, <<"<","/","s","t","y","l","e",">">>) > 0}}

\* C5: the content clean_html returns holds no script element and no body
\* tag, keeps the style elements of the input, and has no leading or trailing
\* whitespace
C5_NoScriptNoBody ==
    pc = "cleaned" =>
        /\ ~HasScriptElement(content)
        /\ ~HasBodyTag(content)
        /\ \A e \in StyleElements(html_content) : Contains(content, e)
        /\ Stripped(content)


(***************************************************************************)
(* Reading a converter result back: the parts of a block, and the          *)
(* top-level nodes of the cleaned content                                  *)
(***************************************************************************)

\* the first line of a block (its opening marker)
OpenLine(b) == Sub(b, 1, FirstIn(b, 1, {"\n"}) - 1)

\* the last line of a block (its closing marker)
CloseLine(b) == Sub(b, LastIn(b, Len(b), {"\n"}) + 1, Len(b))

\* what lies between the two marker lines
Payload(b) == Sub(b, FirstIn(b, 1, {"\n"}) + 1, LastIn(b, Len(b), {"\n"}) - 1)

TopNodes == Children(Soup(content))

\* a node the walk turns into a block: an element, or a string that is not
\* only whitespace
Produces(n) == n.kind = "elem" \/ Strip(n.str) # <<>>

Producers == SelectSeq(TopNodes, Produces)

\* the block name the table of step 5 gives a node
TableName(n) ==
    IF n.kind # "elem" THEN <<"p","a","r","a","g","r","a","p","h">>
    ELSE IF n.name \in {<<"h","1">>, <<"h","2">>, <<"h","3">>, <<"h","4">>, <<"h","5">>, <<"h","6">>} THEN <<"h","e","a","d","i","n","g">>
    ELSE IF n.name = <<"p">> THEN <<"p","a","r","a","g","r","a","p","h">>
    ELSE IF n.name = <<"i","m","g">> THEN <<"i","m","a","g","e">>
    ELSE IF n.name \in {<<"u","l">>, <<"o","l">>} THEN <<"l","i","s","t">>
    ELSE IF n.name = <<"b","l","o","c","k","q","u","o","t","e">> THEN <<"q","u","o","t","e">>
    ELSE IF n.name = <<"p","r","e">> THEN <<"c","o","d","e">>
    ELSE IF n.name = <<"t","a","b","l","e">> THEN <<"t","a","b","l","e">>
    ELSE <<"h","t","m","l">>

\* the digit of a heading's tag name
DigitOf(name) == CHOOSE d \in {"1", "2", "3", "4", "5", "6"} : name = <<"h", d>>

TableOpen(n) ==
    <<"<","!","-","-"," ","w","p",":">> \o TableName(n)
        \o (IF TableName(n) = <<"h","e","a","d","i","n","g">>
            THEN <<" ","{","\"","l","e","v","e","l","\"",":">> \o <<DigitOf(n.name)>> \o <<"}">> ELSE <<>>)
        \o <<" ","-","-",">">>

TableClose(n) == <<"<","!","-","-"," ","/","w","p",":">> \o TableName(n) \o <<" ","-","-",">">>

TablePayload(n) ==
    IF n.kind # "elem" THEN <<"<","p",">">> \o Strip(n.str) \o <<"<","/","p",">">>
    ELSE IF n.name = <<"i","m","g">>
        THEN <<"<","f","i","g","u","r","e"," ","c","l","a","s","s","=","\"","w","p","-","b","l","o","c","k","-","i","m","a","g","e","\"",">">> \o n.str \o <<"<","/","f","i","g","u","r","e",">">>
    ELSE IF n.name = <<"t","a","b","l","e">>
        THEN <<"<","f","i","g","u","r","e"," ","c","l","a","s","s","=","\"","w","p","-","b","l","o","c","k","-","t","a","b","l","e","\"",">">> \o n.str \o <<"<","/","f","i","g","u","r","e",">">>
    ELSE n.str

(***************************************************************************)
(* C1                                                                      *)
(***************************************************************************)

\* C1: every top-level element or text node of the cleaned content gets the
\* block the table gives its kind: heading with the tag's digit as level,
\* paragraph, image and table inside their figure, list, quote, code, a
\* generated <p> around trimmed text, and one wp:html block wrapping the
\* markup verbatim for every other element.
C1_ClassifiedByKind ==
    pc = "converted" =>
        LET kids == Producers
        IN kids # <<>> =>
            /\ Len(blocks) = Len(kids)
            /\ \A i \in 1..Len(kids) :
                kids[i].kind \in {"elem", "text"} =>
                    /\ OpenLine(blocks[i]) = TableOpen(kids[i])
                    /\ Payload(blocks[i]) = TablePayload(kids[i])
                    /\ CloseLine(blocks[i]) = TableClose(kids[i])

\* a heading of level 2 followed by a paragraph, and a div that wraps
\* paragraphs kept whole in one wp:html block
C1_Witness ==
    /\ pc = "converted"
    /\ content = <<"<","h","2",">","T","i","t","l","e","<","/","h","2",">","\n","<","p",">","h","e","l","l","o","<","/","p",">","<","d","i","v",">","<","p",">","a","<","/","p",">"," "," ","<","P",">","b","<","/","d","i","v",">">>
    /\ blocks = << <<"<","!","-","-"," ","w","p",":","h","e","a","d","i","n","g"," ","{","\"","l","e","v","e","l","\"",":","2","}"," ","-","-",">","\n","<","h","2",">","T","i","t","l","e","<","/","h","2",">","\n","<","!","-","-"," ","/","w","p",":","h","e","a","d","i","n","g"," ","-","-",">">>,
                   <<"<","!","-","-"," ","w","p",":","p","a","r","a","g","r","a","p","h"," ","-","-",">","\n","<","p",">","h","e","l","l","o","<","/","p",">","\n","<","!","-","-"," ","/","w","p",":","p","a","r","a","g","r","a","p","h"," ","-","-",">">>,
                   <<"<","!","-","-"," ","w","p",":","h","t","m","l"," ","-","-",">","\n","<","d","i","v",">","<","p",">","a","<","/","p",">"," ","<","p",">","b","<","/","p",">","<","/","d","i","v",">","\n","<","!","-","-"," ","/","w","p",":","h","t","m","l"," ","-","-",">">> >>

(***************************************************************************)
(* C2                                                                      *)
(***************************************************************************)

\* what a block must hold of the node it was made from
Core(n) == IF n.kind = "elem" THEN n.str ELSE Strip(n.str)

RECURSIVE Offset(_, _)
\* where block i starts in the joined string when the separator has 2 characters
Offset(bs, i) == IF i = 1 THEN 1 ELSE Offset(bs, i - 1) + Len(bs[i - 1]) + 2

\* C2: the blocks are in source order, one per top-level element and per
\* non-blank string, none for a whitespace-only text node, and the result is
\* the blocks with exactly two newlines between neighbours.
C2_SourceOrder ==
    pc = "converted" =>
        /\ LET kids == Producers
           IN kids # <<>> =>
                /\ Len(blocks) = Len(kids)
                /\ \A i \in 1..Len(blocks) :
                    Contains(Payload(blocks[i]), Core(kids[i]))
        /\ Len(blocks) >= 1
        /\ Len(result) = Offset(blocks, Len(blocks)) + Len(blocks[Len(blocks)]) - 1
        /\ \A i \in 1..Len(blocks) :
            /\ Sub(result, Offset(blocks, i), Offset(blocks, i) + Len(blocks[i]) - 1)
                    = blocks[i]
            /\ i < Len(blocks) =>
                Sub(result, Offset(blocks, i) + Len(blocks[i]),
                    Offset(blocks, i + 1) - 1) = <<"\n", "\n">>

\* two elements with a whitespace-only text node between them: two blocks
C2_Witness ==
    /\ pc = "converted"
    /\ content = <<"<","h","2",">","T","i","t","l","e","<","/","h","2",">","\n","<","p",">","h","e","l","l","o","<","/","p",">">>
    /\ Len(TopNodes) = 3
    /\ TopNodes[2].kind = "text" /\ Strip(TopNodes[2].str) = <<>>
    /\ Len(blocks) = 2
    /\ Payload(blocks[1]) = <<"<","h","2",">","T","i","t","l","e","<","/","h","2",">">>
    /\ Payload(blocks[2]) = <<"<","p",">","h","e","l","l","o","<","/","p",">">>

(***************************************************************************)
(* C3                                                                      *)
(***************************************************************************)

\* C3: the result is never empty; when the walk yields no block the result is
\* exactly one wp:html block around the whole cleaned content, and otherwise
\* there is one block per producing node and no fallback block.
C3_Fallback ==
    pc = "converted" =>
        /\ result # <<>>
        /\ LET kids == Producers
           IN /\ kids = <<>> =>
                /\ blocks = << <<"<","!","-","-"," ","w","p",":","h","t","m","l"," ","-","-",">","\n">> \o content
                                    \o <<"\n","<","!","-","-"," ","/","w","p",":","h","t","m","l"," ","-","-",">">> >>
                /\ result = blocks[1]
              /\ kids # <<>> => Len(blocks) = Len(kids)

\* an input that is only a script element: empty cleaned content, one
\* fallback block around the empty string
C3_Witness ==
    /\ pc = "converted"
    /\ html_content = <<"<","s","c","r","i","p","t",">","a","l","e","r","t","(","1",")","<","/","s","c","r","i","p","t",">">>
    /\ content = <<>>
    /\ result = <<"<","!","-","-"," ","w","p",":","h","t","m","l"," ","-","-",">","\n","\n","<","!","-","-"," ","/","w","p",":","h","t","m","l"," ","-","-",">">>

(***************************************************************************)
(* C4                                                                      *)
(***************************************************************************)

IsDigit(c) == c \in {"0", "1", "2", "3", "4", "5", "6", "7", "8", "9"}

\* 'Post from YYYY-MM-DD HH:MM'
IsTimestampTitle(t) ==
    /\ Len(t) = 26
    /\ Sub(t, 1, 10) = <<"P","o","s","t"," ","f","r","o","m"," ">>
    /\ \A k \in {11, 12, 13, 14, 16, 17, 19, 20, 22, 23, 25, 26} : IsDigit(t[k])
    /\ t[15] = "-" /\ t[18] = "-" /\ t[21] = " " /\ t[24] = ":"

\* sent is the title a document gives when no title is carried into it
OwnTitle(doc, sent) ==
    LET soup == Soup(doc)
    IN IF HasTag(soup, <<"t","i","t","l","e">>) THEN sent = Strip(Find(soup, <<"t","i","t","l","e">>).text)
       ELSE IF HasTag(soup, <<"h","1">>) THEN sent = Strip(Find(soup, <<"h","1">>).text)
       ELSE IsTimestampTitle(sent)

\* C4: the title after the call is the supplied title when one was supplied,
\* else the trimmed text of the title element, else that of the first h1,
\* else the timestamp string; with <title>Foo</title> and <h1>Bar</h1> it is Foo.
C4_TitleChain ==
    pc = "converted" =>
        /\ LET doc == Soup(html_content)
           IN /\ post_title =
                    (IF env.POST_TITLE # <<>> THEN env.POST_TITLE
                     ELSE IF HasTag(doc, <<"t","i","t","l","e">>)
                          THEN Strip(Find(doc, <<"t","i","t","l","e">>).text)
                     ELSE IF HasTag(doc, <<"h","1">>)
                          THEN Strip(Find(doc, <<"h","1">>).text)
                     ELSE <<"P","o","s","t"," ","f","r","o","m"," ">> \o strftime(now))
              /\ (env.POST_TITLE = <<>> /\ ~HasTag(doc, <<"t","i","t","l","e">>)
                    /\ ~HasTag(doc, <<"h","1">>)) => IsTimestampTitle(post_title)
        /\ (env.POST_TITLE = <<>> /\ Contains(html_content, <<"<","t","i","t","l","e",">"," ","F","o","o"," ","<","/","t","i","t","l","e",">">>))
                => post_title = <<"F","o","o">>

\* a document with both a title element and an h1, no title supplied
C4_Witness ==
    /\ pc = "converted"
    /\ env.POST_TITLE = <<>>
    /\ html_content = <<"<","h","1",">","B","a","r","<","/","h","1",">","<","t","i","t","l","e",">"," ","F","o","o"," ","<","/","t","i","t","l","e",">">>
    /\ post_title = <<"F","o","o">>

(***************************************************************************)
(* C6                                                                      *)
(***************************************************************************)

\* the name in a block's opening marker
BlockName(b) == Sub(b, 9, FirstIn(b, 9, {" "}) - 1)

HasPrefix(s, t) == MatchExact(s, 1, t)
HasSuffix(s, t) == MatchExact(s, Len(s) - Len(t) + 1, t)

\* a block without its marker lines and, for an image or a table, without
\* the figure wrapper
Unwrapped(b) ==
    LET p == Payload(b)
        open == <<"<","f","i","g","u","r","e"," ","c","l","a","s","s","=","\"","w","p","-","b","l","o","c","k","-">> \o BlockName(b) \o <<"\"",">">>
    IN IF BlockName(b) \in {<<"i","m","a","g","e">>, <<"t","a","b","l","e">>}
            /\ HasPrefix(p, open) /\ HasSuffix(p, <<"<","/","f","i","g","u","r","e",">">>)
       THEN Sub(p, Len(open) + 1, Len(p) - 9)
       ELSE p

\* the markup of a top-level node as it stands in the cleaned content, a
\* text node inside the generated <p>
NodeMarkup(n) ==
    IF n.kind = "elem" THEN n.str
    ELSE IF n.kind = "comment" THEN <<"<","!","-","-">> \o n.str \o <<"-","-",">">>
    ELSE <<"<","p",">">> \o n.str \o <<"<","/","p",">">>

C7_NoFieldChanges ==
    [][pc = "convert" =>
        /\ post_title' = post_title
        /\ publish_status' = publish_status
        /\ html_file' = html_file
        /\ headers' = headers
        /\ api_url' = api_url]_vars

\* C7 (amended): a call leaves publish_status, html_file, headers and api_url
\* unchanged, and post_title too when it was non-empty on entry; an empty
\* post_title is set to the resolved title; the returned string is that of
\* the input HTML alone.
C7_OnlyTitleChanges ==
    [][pc = "convert" =>
        /\ publish_status' = publish_status
        /\ html_file' = html_file
        /\ headers' = headers
        /\ api_url' = api_url
        /\ post_title # <<>> => post_title' = post_title
        /\ post_title = <<>> => OwnTitle(html_content, post_title')
        /\ result' = Join(<<"\n", "\n">>, BlocksOf(CleanedContent(html_content)))]_vars

\* a call that was given no title and has set one
C7_Witness ==
    /\ pc = "converted"
    /\ env.POST_TITLE = <<>>
    /\ post_title = <<"B","a","r">>
    /\ publish_status = "draft"

(***************************************************************************)
(* C8                                                                      *)
(***************************************************************************)

\* the marker lines of the first conversion's blocks
FirstMarkers ==
    {OpenLine(first_blocks[i]) : i \in 1..Len(first_blocks)}
        \cup {CloseLine(first_blocks[i]) : i \in 1..Len(first_blocks)}

\* C8: after the converter has run on its own output, every marker of the
\* first output lies inside a wp:html block of the second output and in no
\* block of another type.
C8_MarkersOpaque ==
    pc = "reconverted" =>
        \A m \in FirstMarkers :
            /\ \E i \in 1..Len(blocks) :
                BlockName(blocks[i]) = <<"h","t","m","l">> /\ Contains(Payload(blocks[i]), m)
            /\ \A i \in 1..Len(blocks) :
                Contains(Payload(blocks[i]), m) => BlockName(blocks[i]) = <<"h","t","m","l">>

(***************************************************************************)
(* C9                                                                      *)
(***************************************************************************)

\* C9: in batch mode the title sent for an html file is the one its own
\* document gives (title element, first h1 or timestamp), whatever the files
\* before it were, an unreadable one included.
C9_BatchTitleOwn ==
    env.HTML_FILE = "" =>
        \A k \in 1..Len(requests) :
            requests[k].kind = "html" =>
                OwnTitle(fs_html[requests[k].src].text, requests[k].title)

\* a file with a title, then a file with neither title nor h1: the second
\* post goes out under a timestamp, not under the first file's title
C9_Witness ==
    /\ env.HTML_FILE = ""
    /\ Len(requests) = 2
    /\ requests[1].kind = "html" /\ requests[1].title = <<"F","o","o">>
    /\ requests[2].kind = "html" /\ requests[2].src = 2
    /\ IsTimestampTitle(requests[2].title)

(***************************************************************************)
(* C10                                                                     *)
(***************************************************************************)

\* C10: run exits with 0 exactly when some POST was answered 201; a result
\* says success exactly when its POST was answered 201; a failure carries no
\* post_id.
C10_ExitIffCreated ==
    /\ Len(results) = Len(requests)
    /\ \A k \in 1..Len(results) :
        /\ results[k].success <=>
                (~requests[k].answer.raised /\ requests[k].answer.status = 201)
        /\ ~results[k].success => "post_id" \notin results[k].keys
    /\ pc = "exited" =>
        /\ exit_code \in {0, 1}
        /\ exit_code = 0 <=>
            \E k \in 1..Len(requests) :
                ~requests[k].answer.raised /\ requests[k].answer.status = 201

=============================================================================
